---------------------------- MODULE Spec2Model ----------------------------
(***************************************************************************)
(* Model of the claim workflow of the mining-pool client (src/claim.rs):   *)
(* claim() fetches the balance, resolves and validates the amount, asks   *)
(* for confirmation, posts the claim request and reports the reply.       *)
(*                                                                         *)
(* Texts (reply bodies, lines typed on stdin) are sequences of one-        *)
(* character strings.  Numbers keep a width: u64 is modelled with U64Bits  *)
(* bits and f64 as a binary floating-point format with MantBits bits of    *)
(* precision and round-to-nearest-even, both scaled down so that TLC's     *)
(* integers can carry them.                                                *)
(***************************************************************************)
EXTENDS Integers, Sequences, FiniteSets, TLC

(***************************************************************************)
(* Widths and program constants                                            *)
(***************************************************************************)
\* width of the model's u64 (the program's is 64)
U64Bits == 12
\* precision of the model's f64 (the program's is 53)
MantBits == 10
\* ore_api::consts::TOKEN_DECIMALS, scaled with the widths
TOKEN_DECIMALS == 2
\* decimal range of the model's f64: values >= 10^OverflowDigits are
\* infinite, values < 10^-UnderflowDigits are zero
OverflowDigits == 7
UnderflowDigits == 3
\* the cooldown window of the pool, in seconds
COOLDOWN_SECS == 1800
\* the delay after a failed claim request, in seconds
SLEEP_SECS == 5
\* the largest elapsed-seconds reply the pool is modelled to send
MaxElapsed == 1802

RECURSIVE Pow(_, _)
Pow(b, n) == IF n = 0 THEN 1 ELSE b * Pow(b, n - 1)

U64_MAX == Pow(2, U64Bits) - 1

(***************************************************************************)
(* Characters and texts                                                    *)
(***************************************************************************)
DigitChars == <<"0", "1", "2", "3", "4", "5", "6", "7", "8", "9">>
UpperChars == <<"A", "B", "C", "D", "E", "F", "G", "H", "I", "J", "K", "L", "M",
                "N", "O", "P", "Q", "R", "S", "T", "U", "V", "W", "X", "Y", "Z">>
LowerChars == <<"a", "b", "c", "d", "e", "f", "g", "h", "i", "j", "k", "l", "m",
                "n", "o", "p", "q", "r", "s", "t", "u", "v", "w", "x", "y", "z">>
WhiteChars == {" ", "\t", "\n", "\r"}

IsDigit(c) == \E i \in 1..10 : DigitChars[i] = c
DigitVal(c) == (CHOOSE i \in 1..10 : DigitChars[i] = c) - 1

\* char::to_lowercase on the characters of the model
LowerChar(c) ==
    IF \E i \in 1..26 : UpperChars[i] = c
    THEN LowerChars[CHOOSE i \in 1..26 : UpperChars[i] = c]
    ELSE c

\* str::to_lowercase
to_lowercase(s) == [i \in 1..Len(s) |-> LowerChar(s[i])]

RECURSIVE trim_start(_)
trim_start(s) ==
    IF Len(s) > 0 /\ s[1] \in WhiteChars THEN trim_start(Tail(s)) ELSE s

RECURSIVE trim_end(_)
trim_end(s) ==
    IF Len(s) > 0 /\ s[Len(s)] \in WhiteChars
    THEN trim_end(SubSeq(s, 1, Len(s) - 1))
    ELSE s

\* str::trim
trim(s) == trim_end(trim_start(s))

Drop(s, n) == SubSeq(s, n + 1, Len(s))

\* the number of leading decimal digits of s
RECURSIVE DigitPrefixLen(_)
DigitPrefixLen(s) ==
    IF Len(s) > 0 /\ IsDigit(s[1]) THEN 1 + DigitPrefixLen(Tail(s)) ELSE 0

\* the value of a text of decimal digits
RECURSIVE DigitsVal(_)
DigitsVal(s) ==
    IF Len(s) = 0 THEN 0
    ELSE 10 * DigitsVal(SubSeq(s, 1, Len(s) - 1)) + DigitVal(s[Len(s)])

\* the decimal digits of n >= 0, as u64's Display writes them
RECURSIVE NatText(_)
NatText(n) ==
    IF n < 10 THEN <<DigitChars[n + 1]>>
    ELSE Append(NatText(n \div 10), DigitChars[(n % 10) + 1])

\* the number of decimal digits of n >= 1
NumDigits(n) == Len(NatText(n))

(***************************************************************************)
(* Number parsing and conversion                                           *)
(***************************************************************************)
\* the digits of s read as a u64, capped at U64_MAX + 1 once they overflow
RECURSIVE DigitsValCapped(_, _)
DigitsValCapped(s, acc) ==
    IF Len(s) = 0 THEN acc
    ELSE LET next == 10 * acc + DigitVal(s[1])
         IN  IF next > U64_MAX THEN U64_MAX + 1
             ELSE DigitsValCapped(Tail(s), next)

\* str::parse::<u64>: an optional "+", then one or more digits and nothing
\* else; a value above u64::MAX is an error
ParseU64(s) ==
    LET digits == IF Len(s) > 0 /\ s[1] = "+" THEN Tail(s) ELSE s
        val    == DigitsValCapped(digits, 0)
    IN  IF Len(digits) = 0 \/ DigitPrefixLen(digits) # Len(digits) \/ val > U64_MAX
        THEN [ok |-> FALSE, val |-> 0]
        ELSE [ok |-> TRUE, val |-> val]

\* f64 values: not-a-number, an infinity, or (-1)^neg * m * 2^e with m = 0
\* or 2^(MantBits-1) <= m < 2^MantBits
F64NaN == [k |-> "nan", neg |-> FALSE, m |-> 0, e |-> 0]
F64Inf(neg) == [k |-> "inf", neg |-> neg, m |-> 0, e |-> 0]
F64Zero(neg) == [k |-> "fin", neg |-> neg, m |-> 0, e |-> 0]
F64Fin(neg, m, e) == [k |-> "fin", neg |-> neg, m |-> m, e |-> e]

\* num / den * 2^e (num, den > 0) rounded to MantBits bits, ties to even
RECURSIVE RoundToF64(_, _, _, _)
RoundToF64(neg, num, den, e) ==
    IF num < Pow(2, MantBits - 1) * den THEN RoundToF64(neg, 2 * num, den, e - 1)
    ELSE IF num >= Pow(2, MantBits) * den THEN RoundToF64(neg, num, 2 * den, e + 1)
    ELSE LET q  == num \div den
             r  == num % den
             up == 2 * r > den \/ (2 * r = den /\ q % 2 = 1)
             m  == IF up THEN q + 1 ELSE q
         IN  IF m = Pow(2, MantBits)
             THEN F64Fin(neg, Pow(2, MantBits - 1), e + 1)
             ELSE F64Fin(neg, m, e)

\* the f64 nearest to (-1)^neg * mant * 10^exp10
DecimalToF64(neg, mant, exp10) ==
    IF mant = 0 THEN F64Zero(neg)
    ELSE LET mag == NumDigits(mant) + exp10   \* 10^(mag-1) <= value < 10^mag
         IN  IF mag > OverflowDigits THEN F64Inf(neg)
             ELSE IF mag <= -UnderflowDigits THEN F64Zero(neg)
             ELSE IF exp10 >= 0 THEN RoundToF64(neg, mant * Pow(10, exp10), 1, 0)
             ELSE RoundToF64(neg, mant, Pow(10, -exp10), 0)

\* the text without leading "0"s
RECURSIVE StripZeros(_)
StripZeros(s) == IF Len(s) > 0 /\ s[1] = "0" THEN StripZeros(Tail(s)) ELSE s

\* str::parse::<f64>: [sign] ("inf" | "infinity" | "nan" | number), the
\* number being digits with an optional "." and an optional exponent; no
\* surrounding whitespace is accepted
ParseF64(s) ==
    LET signed == Len(s) > 0 /\ s[1] \in {"+", "-"}
        neg    == Len(s) > 0 /\ s[1] = "-"
        body   == IF signed THEN Tail(s) ELSE s
        word   == to_lowercase(body)
        n1     == DigitPrefixLen(body)
        ipart  == SubSeq(body, 1, n1)
        rest1  == Drop(body, n1)
        hasDot == Len(rest1) > 0 /\ rest1[1] = "."
        rest2  == IF hasDot THEN Tail(rest1) ELSE rest1
        n2     == IF hasDot THEN DigitPrefixLen(rest2) ELSE 0
        fpart  == SubSeq(rest2, 1, n2)
        rest3  == Drop(rest2, n2)
        hasExp == Len(rest3) > 0 /\ rest3[1] \in {"e", "E"}
        rest4  == IF hasExp THEN Tail(rest3) ELSE rest3
        esign  == hasExp /\ Len(rest4) > 0 /\ rest4[1] \in {"+", "-"}
        eneg   == hasExp /\ Len(rest4) > 0 /\ rest4[1] = "-"
        edig   == IF esign THEN Tail(rest4) ELSE rest4
        expOk  == IF hasExp
                  THEN Len(edig) > 0 /\ DigitPrefixLen(edig) = Len(edig)
                  ELSE Len(rest3) = 0
        exp    == IF hasExp
                  THEN (IF eneg THEN -DigitsVal(edig) ELSE DigitsVal(edig))
                  ELSE 0
        mant   == DigitsVal(StripZeros(ipart \o fpart))
    IN  IF word = <<"n", "a", "n">> THEN [ok |-> TRUE, val |-> F64NaN]
        ELSE IF word = <<"i", "n", "f">>
                \/ word = <<"i", "n", "f", "i", "n", "i", "t", "y">>
        THEN [ok |-> TRUE, val |-> F64Inf(neg)]
        ELSE IF n1 + n2 = 0 \/ ~expOk THEN [ok |-> FALSE, val |-> F64NaN]
        ELSE [ok |-> TRUE, val |-> DecimalToF64(neg, mant, exp - n2)]

\* x * 10f64.powf(TOKEN_DECIMALS as f64): the product rounded to f64
MulPow10(x) ==
    IF x.k # "fin" \/ x.m = 0 THEN x
    ELSE RoundToF64(x.neg, x.m * Pow(10, TOKEN_DECIMALS), 1, x.e)

\* `x as u64`: truncation toward zero, saturating; NaN gives 0
\* the cast without saturation at zero: a negative value becomes a large
\* unsigned one
F64AsU64Wrapping(x) ==
    IF x.k = "nan" THEN 0
    ELSE IF x.k = "inf" THEN U64_MAX
    ELSE IF x.m = 0 THEN 0
    ELSE IF x.neg THEN U64_MAX
    ELSE IF x.e >= 0
         THEN (IF x.e + MantBits - 1 >= U64Bits THEN U64_MAX
               ELSE LET v == x.m * Pow(2, x.e)
                    IN  IF v > U64_MAX THEN U64_MAX ELSE v)
    ELSE IF -x.e >= MantBits THEN 0
    ELSE x.m \div Pow(2, -x.e)

F64AsU64(x) ==
    IF x.k = "nan" THEN 0
    ELSE IF x.neg THEN 0
    ELSE IF x.k = "inf" THEN U64_MAX
    ELSE IF x.m = 0 THEN 0
    ELSE IF x.e >= 0
         THEN (IF x.e + MantBits - 1 >= U64Bits THEN U64_MAX
               ELSE LET v == x.m * Pow(2, x.e)
                    IN  IF v > U64_MAX THEN U64_MAX ELSE v)
    ELSE IF -x.e >= MantBits THEN 0
    ELSE x.m \div Pow(2, -x.e)

\* (amount * 10f64.powf(TOKEN_DECIMALS as f64)) as u64
ToGrains(x) == F64AsU64(MulPow10(x))

(***************************************************************************)
(* What the environment can supply                                         *)
(***************************************************************************)
None(v) == [some |-> FALSE, val |-> v]
Some(v) == [some |-> TRUE, val |-> v]

\* bodies the pool can send for GET /miner/rewards
BalanceBodies ==
    { <<"0">>, <<"0", ".", "0", "5">>, <<"0", ".", "0", "7">>, <<"5", ".", "0">>,
      <<"0", ".", "0", "0", "1">>, <<"-", "1">>, <<"-", "0", ".", "0", "5">>,
      <<"i", "n", "f">>, <<"N", "a", "N">>,
      <<"a", "b", "c">>, <<>>, <<"5", ".", "0", "\n">>, <<" ", "5">> }

\* decimal texts a user can give as the amount
AmountTexts ==
    { <<"0">>, <<"0", ".", "0", "5">>, <<"0", ".", "0", "6">>, <<"0", ".", "0", "7">>,
      <<"3", ".", "0">>, <<"5", ".", "0">>, <<"5", ".", "0", "1">>,
      <<"0", ".", "0", "0", "1">>, <<"-", "1">>, <<"i", "n", "f">>, <<"n", "a", "n">>,
      <<"1", "e", "1">>, <<"-", "i", "n", "f">> }

\* values --amount can carry: clap parses the flag with str::parse::<f64>
PresetAmounts == { ParseF64(t).val : t \in AmountTexts }

\* lines read_line can return for the amount; a line without "\n" is the
\* last one before end-of-input, the empty text is end-of-input itself
AmountLines ==
    { Append(t, "\n") : t \in AmountTexts }
    \cup { <<>>, <<"\n">>, <<"a", "b", "c", "\n">>, <<" ", "0", ".", "0", "5", " ", "\r", "\n">>,
           <<"3", ".", "0">>, <<"0", ".", "0", "5", "x", "\n">>, <<"y", "\n">> }

\* lines read_line can return for the confirmation
ConfirmLines ==
    { <<>>, <<"\n">>, <<"y", "\n">>, <<"Y", "\n">>, <<"y", "e", "s", "\n">>,
      <<"Y", "E", "S", "\n">>, <<"Y", "e", "s", "\n">>, <<" ", "y", " ", "\r", "\n">>,
      <<"y">>, <<"n", "\n">>, <<"N", "\n">>, <<"n", "o", "\n">>,
      <<"m", "a", "y", "b", "e", "\n">>, <<"y", "y", "\n">>, <<"y", "e", "\n">>,
      <<"y", " ", "e", "s", "\n">>, <<"0", ".", "0", "5", "\n">> }

\* bodies the pool can send for POST /claim
ClaimBodies ==
    { <<"S", "U", "C", "C", "E", "S", "S">>, <<"s", "u", "c", "c", "e", "s", "s">>,
      <<"S", "U", "C", "C", "E", "S", "S", "\n">>, <<>>, <<"a", "b", "c">>,
      <<"0">>, <<"6", "0", "0">>, <<"1", "7", "9", "9">>, <<"1", "8", "0", "0">>,
      <<"1", "8", "0", "1">>, <<"1", "9", "0", "0">>, <<"+", "6", "0", "0">>,
      <<"-", "6", "0", "0">>, <<" ", "6", "0", "0">>, <<"6", "0", "0", ".", "0">>,
      <<"0", "0", "6", "0", "0">>, <<"9", "9", "9", "9", "9">> }

\* every elapsed-seconds reply up to MaxElapsed
ElapsedBodies == { NatText(e) : e \in 0..MaxElapsed }

SUCCESS == <<"S", "U", "C", "C", "E", "S", "S">>

(***************************************************************************)
(* State of one invocation of claim()                                      *)
(***************************************************************************)
VARIABLES
    pc,                   \* where claim() is suspended
    args_amount,          \* args.amount: Option<f64>
    balance,              \* the body of the balance reply
    balance_grains,
    input,                \* the amount line as read
    claim_amount,
    claim_amount_grains,
    confirm,              \* the confirmation line as read
    post_amount,          \* the amount parameter of the POST /claim sent
    response_text,
    time_left,
    mins,
    secs,
    slept,                \* seconds spent in tokio::time::sleep
    outcome,              \* the terminal outcome reported
    trace                 \* requests, prints, reads and delays, in order

vars == <<pc, args_amount, balance, balance_grains, input, claim_amount,
          claim_amount_grains, confirm, post_amount, response_text, time_left,
          mins, secs, slept, outcome, trace>>

Outcomes == { "no_balance", "invalid_input", "zero_amount", "insufficient_balance",
              "user_cancelled", "success", "cooldown_report", "unrecognized_report",
              "transport_failure_report" }

Init ==
    /\ pc = "start"
    /\ args_amount \in {None(F64NaN)} \cup { Some(v) : v \in PresetAmounts }
    /\ balance = None(<<>>)
    /\ balance_grains = None(0)
    /\ input = None(<<>>)
    /\ claim_amount = None(F64NaN)
    /\ claim_amount_grains = None(0)
    /\ confirm = None(<<>>)
    /\ post_amount = None(0)
    /\ response_text = None(<<>>)
    /\ time_left = None(0)
    /\ mins = None(0)
    /\ secs = None(0)
    /\ slept = 0
    /\ outcome = "none"
    /\ trace = <<>>

(***************************************************************************)
(* claim(): one action per suspension point, running to the next one       *)
(***************************************************************************)
\* the message that reports an outcome
Message(oc) == <<"print", oc>>

\* Report returning at once, without prompt_to_continue()
ReportNoPause(evs, oc) ==
    /\ trace' = trace \o evs \o <<Message(oc)>>
    /\ outcome' = oc
    /\ pc' = "done"

\* a terminal message, then prompt_to_continue() prints and blocks on stdin
Report(evs, oc) ==
    /\ trace' = trace \o evs \o <<Message(oc), <<"print", "press_any_key">>>>
    /\ outcome' = oc
    /\ pc' = "prompt"

\* the process panics: nothing more of claim() runs
Panic(evs) ==
    /\ trace' = trace \o evs \o <<<<"panic">>>>
    /\ pc' = "panicked"
    /\ UNCHANGED outcome

\* the program starts the balance request and awaits the reply
SendBalanceRequest ==
    /\ pc = "start"
    /\ trace' = Append(trace, <<"GET", "/miner/rewards">>)
    /\ pc' = "await_balance"
    /\ UNCHANGED <<args_amount, balance, balance_grains, input, claim_amount,
                   claim_amount_grains, confirm, post_amount, response_text,
                   time_left, mins, secs, slept, outcome>>

\* the balance request failed at the transport level
BalanceTransportError ==
    /\ pc = "await_balance"
    /\ Report(<<>>, "no_balance")
    /\ UNCHANGED <<args_amount, balance, balance_grains, input, claim_amount,
                   claim_amount_grains, confirm, post_amount, response_text,
                   time_left, mins, secs, slept>>

\* BalanceFromBody without the check against zero
BalanceFromBodyNoZeroCheck(body) ==
    LET parsed == ParseF64(body)
        grains == ToGrains(parsed.val)
    IN  /\ balance' = Some(body)
        /\ IF ~parsed.ok
           THEN Report(<<>>, "no_balance") /\ UNCHANGED balance_grains
           ELSE /\ balance_grains' = Some(grains)
                /\ trace' = Append(trace, <<"call", "balance">>)
                /\ pc' = "show_balance"
                /\ UNCHANGED outcome
        /\ UNCHANGED <<args_amount, input, claim_amount, claim_amount_grains,
                       confirm, post_amount, response_text, time_left, mins, secs, slept>>

\* BalanceFromBody parsing the trimmed body, as the amount line is parsed
BalanceFromBodyTrimmed(body) ==
    LET parsed == ParseF64(trim(body))
        grains == ToGrains(parsed.val)
    IN  /\ balance' = Some(body)
        /\ IF ~parsed.ok
           THEN Report(<<>>, "no_balance") /\ UNCHANGED balance_grains
           ELSE /\ balance_grains' = Some(grains)
                /\ IF grains = 0
                   THEN Report(<<>>, "no_balance")
                   ELSE /\ trace' = Append(trace, <<"call", "balance">>)
                        /\ pc' = "show_balance"
                        /\ UNCHANGED outcome
        /\ UNCHANGED <<args_amount, input, claim_amount, claim_amount_grains,
                       confirm, post_amount, response_text, time_left, mins, secs, slept>>

\* the balance off the reply body, checked against zero; with a balance the
\* program goes on to display it with balance()
BalanceFromBody(body) ==
    LET parsed == ParseF64(body)
        grains == ToGrains(parsed.val)
    IN  /\ balance' = Some(body)
        /\ IF ~parsed.ok
           THEN Report(<<>>, "no_balance") /\ UNCHANGED balance_grains
           ELSE /\ balance_grains' = Some(grains)
                /\ IF grains = 0
                   THEN Report(<<>>, "no_balance")
                   ELSE /\ trace' = Append(trace, <<"call", "balance">>)
                        /\ pc' = "show_balance"
                        /\ UNCHANGED outcome
        /\ UNCHANGED <<args_amount, input, claim_amount, claim_amount_grains,
                       confirm, post_amount, response_text, time_left, mins, secs, slept>>

\* the balance reply arrived with a readable body
BalanceReply(body) ==
    /\ pc = "await_balance"
    /\ BalanceFromBody(body)

\* the balance reply arrived and its body could not be read: the body
\* defaults to "0"
BalanceBodyUnreadable ==
    /\ pc = "await_balance"
    /\ BalanceFromBody(<<"0">>)

\* Validate with the bound check off by one (>= for >)
ValidateOffByOne(amount, evs) ==
    LET grains == ToGrains(amount)
    IN  /\ claim_amount' = Some(amount)
        /\ claim_amount_grains' = Some(grains)
        /\ IF grains = 0 THEN Report(evs, "zero_amount")
           ELSE IF grains >= balance_grains.val THEN Report(evs, "insufficient_balance")
           ELSE /\ trace' = trace \o evs \o <<<<"print", "are_you_sure">>>>
                /\ pc' = "read_confirm"
                /\ UNCHANGED outcome

\* the zero-amount and balance-bound checks on the resolved amount, then the
\* confirmation question
Validate(amount, evs) ==
    LET grains == ToGrains(amount)
    IN  /\ claim_amount' = Some(amount)
        /\ claim_amount_grains' = Some(grains)
        /\ IF grains = 0 THEN Report(evs, "zero_amount")
           ELSE IF grains > balance_grains.val THEN Report(evs, "insufficient_balance")
           ELSE /\ trace' = trace \o evs \o <<<<"print", "are_you_sure">>>>
                /\ pc' = "read_confirm"
                /\ UNCHANGED outcome

\* ShowBalanceDone trusting a preset amount: it goes to the confirmation
\* question without the zero-amount and balance-bound checks
ShowBalanceDonePresetUnchecked ==
    /\ pc = "show_balance"
    /\ IF args_amount.some
       THEN /\ claim_amount' = Some(args_amount.val)
            /\ claim_amount_grains' = Some(ToGrains(args_amount.val))
            /\ trace' = Append(trace, <<"print", "are_you_sure">>)
            /\ pc' = "read_confirm"
            /\ UNCHANGED outcome
       ELSE /\ trace' = Append(trace, <<"print", "enter_amount">>)
            /\ pc' = "read_amount"
            /\ UNCHANGED <<claim_amount, claim_amount_grains, outcome>>
    /\ UNCHANGED <<args_amount, balance, balance_grains, input, confirm,
                   post_amount, response_text, time_left, mins, secs, slept>>

\* ShowBalanceDone with the display call refreshing the balance snapshot
ShowBalanceDoneRefetch ==
    /\ pc = "show_balance"
    /\ \E body \in BalanceBodies :
        /\ ParseF64(body).ok
        /\ balance_grains' = Some(ToGrains(ParseF64(body).val))
    /\ IF args_amount.some
       THEN Validate(args_amount.val, <<>>)
       ELSE /\ trace' = Append(trace, <<"print", "enter_amount">>)
            /\ pc' = "read_amount"
            /\ UNCHANGED <<claim_amount, claim_amount_grains, outcome>>
    /\ UNCHANGED <<args_amount, balance, input, confirm,
                   post_amount, response_text, time_left, mins, secs, slept>>

\* balance() returned: a preset amount is used as it is, otherwise the
\* program asks for the amount and blocks on stdin
ShowBalanceDone ==
    /\ pc = "show_balance"
    /\ IF args_amount.some
       THEN Validate(args_amount.val, <<>>)
       ELSE /\ trace' = Append(trace, <<"print", "enter_amount">>)
            /\ pc' = "read_amount"
            /\ UNCHANGED <<claim_amount, claim_amount_grains, outcome>>
    /\ UNCHANGED <<args_amount, balance, balance_grains, input, confirm,
                   post_amount, response_text, time_left, mins, secs, slept>>

\* ReadAmount asking for the amount again when the line does not parse
ReadAmountRetry(line) ==
    LET parsed == ParseF64(trim(line))
        evs    == <<<<"read_line", "amount">>>>
    IN  /\ pc = "read_amount"
        /\ input' = Some(line)
        /\ IF parsed.ok
           THEN Validate(parsed.val, evs)
           ELSE /\ trace' = trace \o evs \o <<Message("invalid_input"), <<"print", "enter_amount">>>>
                /\ pc' = "read_amount"
                /\ UNCHANGED <<claim_amount, claim_amount_grains, outcome>>
        /\ UNCHANGED <<args_amount, balance, balance_grains, confirm,
                       post_amount, response_text, time_left, mins, secs, slept>>

\* read_line returned the amount line
ReadAmount(line) ==
    LET parsed == ParseF64(trim(line))
        evs    == <<<<"read_line", "amount">>>>
    IN  /\ pc = "read_amount"
        /\ input' = Some(line)
        /\ IF parsed.ok
           THEN Validate(parsed.val, evs)
           ELSE Report(evs, "invalid_input")
                /\ UNCHANGED <<claim_amount, claim_amount_grains>>
        /\ UNCHANGED <<args_amount, balance, balance_grains, confirm,
                       post_amount, response_text, time_left, mins, secs, slept>>

\* read_line failed on the amount line (an I/O error, bytes that are not
\* UTF-8): unwrap() panics
ReadAmountError ==
    /\ pc = "read_amount"
    /\ Panic(<<<<"read_line", "amount">>>>)
    /\ UNCHANGED <<args_amount, balance, balance_grains, input, claim_amount,
                   claim_amount_grains, confirm, post_amount, response_text,
                   time_left, mins, secs, slept>>

\* Affirmative without the default: an empty answer declines
AffirmativeNoDefault(answer) ==
    ~(answer # <<"y">> /\ answer # <<"y", "e", "s">>)

\* the answers that confirm
Affirmative(answer) ==
    ~(answer # <<"y">> /\ answer # <<>> /\ answer # <<"y", "e", "s">>)

\* ReadConfirm sending the whole balance instead of the validated amount
ReadConfirmSendsBalance(line) ==
    LET answer == to_lowercase(trim(line))
        evs    == <<<<"read_line", "confirm">>>>
    IN  /\ pc = "read_confirm"
        /\ confirm' = Some(line)
        /\ IF ~Affirmative(answer)
           THEN Report(evs, "user_cancelled") /\ UNCHANGED post_amount
           ELSE /\ trace' = trace \o evs \o <<<<"print", "sending">>, <<"POST", "/claim">>>>
                /\ post_amount' = Some(balance_grains.val)
                /\ pc' = "await_claim"
                /\ UNCHANGED outcome
        /\ UNCHANGED <<args_amount, balance, balance_grains, input, claim_amount,
                       claim_amount_grains, response_text, time_left, mins, secs, slept>>

\* ReadConfirm asking again when the answer is neither a yes nor a no
ReadConfirmReask(line) ==
    LET answer == to_lowercase(trim(line))
        evs    == <<<<"read_line", "confirm">>>>
    IN  /\ pc = "read_confirm"
        /\ confirm' = Some(line)
        /\ IF answer \in { <<"n">>, <<"n", "o">> }
           THEN Report(evs, "user_cancelled") /\ UNCHANGED post_amount
           ELSE IF ~Affirmative(answer)
           THEN /\ trace' = trace \o evs \o <<<<"print", "are_you_sure">>>>
                /\ pc' = "read_confirm"
                /\ UNCHANGED <<post_amount, outcome>>
           ELSE /\ trace' = trace \o evs \o <<<<"print", "sending">>, <<"POST", "/claim">>>>
                /\ post_amount' = Some(claim_amount_grains.val)
                /\ pc' = "await_claim"
                /\ UNCHANGED outcome
        /\ UNCHANGED <<args_amount, balance, balance_grains, input, claim_amount,
                       claim_amount_grains, response_text, time_left, mins, secs, slept>>

\* ReadConfirm taking end-of-input (read_line returned no characters) as a
\* decline
ReadConfirmEofCancels(line) ==
    LET answer == to_lowercase(trim(line))
        evs    == <<<<"read_line", "confirm">>>>
    IN  /\ pc = "read_confirm"
        /\ confirm' = Some(line)
        /\ IF line = <<>> \/ ~Affirmative(answer)
           THEN Report(evs, "user_cancelled") /\ UNCHANGED post_amount
           ELSE /\ trace' = trace \o evs \o <<<<"print", "sending">>, <<"POST", "/claim">>>>
                /\ post_amount' = Some(claim_amount_grains.val)
                /\ pc' = "await_claim"
                /\ UNCHANGED outcome
        /\ UNCHANGED <<args_amount, balance, balance_grains, input, claim_amount,
                       claim_amount_grains, response_text, time_left, mins, secs, slept>>

\* read_line returned the confirmation line: a decline ends the attempt, an
\* affirmative answer sends the claim request
ReadConfirm(line) ==
    LET answer == to_lowercase(trim(line))
        evs    == <<<<"read_line", "confirm">>>>
    IN  /\ pc = "read_confirm"
        /\ confirm' = Some(line)
        /\ IF ~Affirmative(answer)
           THEN Report(evs, "user_cancelled") /\ UNCHANGED post_amount
           ELSE /\ trace' = trace \o evs \o <<<<"print", "sending">>, <<"POST", "/claim">>>>
                /\ post_amount' = Some(claim_amount_grains.val)
                /\ pc' = "await_claim"
                /\ UNCHANGED outcome
        /\ UNCHANGED <<args_amount, balance, balance_grains, input, claim_amount,
                       claim_amount_grains, response_text, time_left, mins, secs, slept>>

\* read_line failed on the confirmation line: unwrap() panics
ReadConfirmError ==
    /\ pc = "read_confirm"
    /\ Panic(<<<<"read_line", "confirm">>>>)
    /\ UNCHANGED <<args_amount, balance, balance_grains, input, claim_amount,
                   claim_amount_grains, confirm, post_amount, response_text,
                   time_left, mins, secs, slept>>

\* the claim request failed at the transport level: the error is printed
\* and the program sleeps
ClaimTransportError ==
    /\ pc = "await_claim"
    /\ trace' = trace \o <<Message("transport_failure_report"), <<"print", "retrying">>>>
    /\ outcome' = "transport_failure_report"
    /\ pc' = "sleeping"
    /\ UNCHANGED <<args_amount, balance, balance_grains, input, claim_amount,
                   claim_amount_grains, confirm, post_amount, response_text,
                   time_left, mins, secs, slept>>

\* SleepDone completed into a real retry: the request is sent again
SleepDoneResend ==
    /\ pc = "sleeping"
    /\ slept' = slept + SLEEP_SECS
    /\ trace' = trace \o <<<<"sleep">>, <<"POST", "/claim">>>>
    /\ pc' = "await_claim"
    /\ UNCHANGED <<args_amount, balance, balance_grains, input, claim_amount,
                   claim_amount_grains, confirm, post_amount, response_text,
                   time_left, mins, secs, outcome>>

\* the sleep is over: prompt_to_continue()
SleepDone ==
    /\ pc = "sleeping"
    /\ slept' = slept + SLEEP_SECS
    /\ trace' = trace \o <<<<"sleep">>, <<"print", "press_any_key">>>>
    /\ pc' = "prompt"
    /\ UNCHANGED <<args_amount, balance, balance_grains, input, claim_amount,
                   claim_amount_grains, confirm, post_amount, response_text,
                   time_left, mins, secs, outcome>>

\* WrappingSub with the operands the wrong way round
WrappingSubReversed(a, b) == (b - a) % Pow(2, U64Bits)

\* a - b in u64 without overflow checks: it wraps
WrappingSub(a, b) == (a - b) % Pow(2, U64Bits)

\* ClaimReply with the delay placed after the match: every reply sleeps
\* before prompt_to_continue()
ClaimReplyThenSleep(body) ==
    LET time == ParseU64(body)
        left == WrappingSub(COOLDOWN_SECS, time.val)
        oc   == IF body = SUCCESS THEN "success"
                ELSE IF time.ok THEN "cooldown_report"
                ELSE "unrecognized_report"
    IN  /\ pc = "await_claim"
        /\ response_text' = Some(body)
        /\ IF oc = "cooldown_report"
           THEN /\ time_left' = Some(left)
                /\ secs' = Some(left % 60)
                /\ mins' = Some((left \div 60) % 60)
           ELSE UNCHANGED <<time_left, mins, secs>>
        /\ trace' = Append(trace, Message(oc))
        /\ outcome' = oc
        /\ pc' = "sleeping"
        /\ UNCHANGED <<args_amount, balance, balance_grains, input, claim_amount,
                       claim_amount_grains, confirm, post_amount, slept>>

\* the claim reply arrived with a readable body and is classified; the
\* subtraction wraps when overflow checks are off (a release build)
ClaimReply(body) ==
    LET time == ParseU64(body)
        left == WrappingSub(COOLDOWN_SECS, time.val)
    IN  /\ pc = "await_claim"
        /\ response_text' = Some(body)
        /\ IF body = SUCCESS
           THEN Report(<<>>, "success") /\ UNCHANGED <<time_left, mins, secs>>
           ELSE IF time.ok
           THEN /\ time_left' = Some(left)
                /\ secs' = Some(left % 60)
                /\ mins' = Some((left \div 60) % 60)
                /\ Report(<<>>, "cooldown_report")
           ELSE Report(<<>>, "unrecognized_report") /\ UNCHANGED <<time_left, mins, secs>>
        /\ UNCHANGED <<args_amount, balance, balance_grains, input, claim_amount,
                       claim_amount_grains, confirm, post_amount, slept>>

\* the same reply when overflow checks are on (a debug build): 1800 - time
\* panics for time > 1800
ClaimReplyChecked(body) ==
    LET time == ParseU64(body)
    IN  /\ pc = "await_claim"
        /\ body # SUCCESS
        /\ time.ok
        /\ time.val > COOLDOWN_SECS
        /\ response_text' = Some(body)
        /\ Panic(<<>>)
        /\ UNCHANGED <<args_amount, balance, balance_grains, input, claim_amount,
                       claim_amount_grains, confirm, post_amount, time_left,
                       mins, secs, slept>>

\* the claim reply arrived and its body could not be read: unwrap() panics
ClaimBodyUnreadable ==
    /\ pc = "await_claim"
    /\ Panic(<<>>)
    /\ UNCHANGED <<args_amount, balance, balance_grains, input, claim_amount,
                   claim_amount_grains, confirm, post_amount, response_text,
                   time_left, mins, secs, slept>>

\* prompt_to_continue(): the read of one byte returned (a byte, or none at
\* end-of-input) and claim() returns
PromptRead ==
    /\ pc = "prompt"
    /\ trace' = Append(trace, <<"read", "byte">>)
    /\ pc' = "done"
    /\ UNCHANGED <<args_amount, balance, balance_grains, input, claim_amount,
                   claim_amount_grains, confirm, post_amount, response_text,
                   time_left, mins, secs, slept, outcome>>

\* prompt_to_continue(): the read failed and unwrap() panics
PromptReadError ==
    /\ pc = "prompt"
    /\ Panic(<<<<"read", "byte">>>>)
    /\ UNCHANGED <<args_amount, balance, balance_grains, input, claim_amount,
                   claim_amount_grains, confirm, post_amount, response_text,
                   time_left, mins, secs, slept>>

Next ==
    \/ SendBalanceRequest
    \/ BalanceTransportError
    \/ pc = "await_balance" /\ \E body \in BalanceBodies : BalanceReply(body)
    \/ BalanceBodyUnreadable
    \/ ShowBalanceDone
    \/ pc = "read_amount" /\ \E line \in AmountLines : ReadAmount(line)
    \/ ReadAmountError
    \/ pc = "read_confirm" /\ \E line \in ConfirmLines : ReadConfirm(line)
    \/ ReadConfirmError
    \/ ClaimTransportError
    \/ SleepDone
    \/ ClaimBodyUnreadable
    \/ pc = "await_claim" /\ \E body \in ClaimBodies : ClaimReply(body)
    \/ pc = "await_claim" /\ \E body \in ClaimBodies : ClaimReplyChecked(body)
    \/ PromptRead
    \/ PromptReadError

Spec == Init /\ [][Next]_vars

\* the invocation when every awaited reply and input line arrives: the
\* reads of stdin do not fail, and the program takes each step it can take
NextLive ==
    \/ SendBalanceRequest
    \/ BalanceTransportError
    \/ pc = "await_balance" /\ \E body \in BalanceBodies : BalanceReply(body)
    \/ BalanceBodyUnreadable
    \/ ShowBalanceDone
    \/ pc = "read_amount" /\ \E line \in AmountLines : ReadAmount(line)
    \/ pc = "read_confirm" /\ \E line \in ConfirmLines : ReadConfirm(line)
    \/ ClaimTransportError
    \/ SleepDone
    \/ ClaimBodyUnreadable
    \/ pc = "await_claim" /\ \E body \in ClaimBodies : ClaimReply(body)
    \/ pc = "await_claim" /\ \E body \in ClaimBodies : ClaimReplyChecked(body)
    \/ PromptRead

SpecLive == Init /\ [][NextLive]_vars /\ WF_vars(NextLive)

(***************************************************************************)
(* The reply handling on its own: the invocation of the end-to-end         *)
(* scenario (balance "5.0", amount line "3.0", answer "y") stands at the   *)
(* sent claim request, and the pool answers with any elapsed-seconds body. *)
(***************************************************************************)
ScenarioBalance == <<"5", ".", "0">>
ScenarioInput == <<"3", ".", "0", "\n">>
ScenarioConfirm == <<"y", "\n">>

InitCooldown ==
    /\ pc = "await_claim"
    /\ args_amount = None(F64NaN)
    /\ balance = Some(ScenarioBalance)
    /\ balance_grains = Some(ToGrains(ParseF64(ScenarioBalance).val))
    /\ input = Some(ScenarioInput)
    /\ claim_amount = Some(ParseF64(trim(ScenarioInput)).val)
    /\ claim_amount_grains = Some(ToGrains(ParseF64(trim(ScenarioInput)).val))
    /\ confirm = Some(ScenarioConfirm)
    /\ post_amount = Some(ToGrains(ParseF64(trim(ScenarioInput)).val))
    /\ response_text = None(<<>>)
    /\ time_left = None(0)
    /\ mins = None(0)
    /\ secs = None(0)
    /\ slept = 0
    /\ outcome = "none"
    /\ trace = << <<"GET", "/miner/rewards">>, <<"call", "balance">>,
                  <<"print", "enter_amount">>, <<"read_line", "amount">>,
                  <<"print", "are_you_sure">>, <<"read_line", "confirm">>,
                  <<"print", "sending">>, <<"POST", "/claim">> >>

NextCooldown ==
    \/ pc = "await_claim" /\ \E body \in ElapsedBodies : ClaimReply(body)
    \/ pc = "await_claim" /\ \E body \in ElapsedBodies : ClaimReplyChecked(body)
    \/ PromptRead
    \/ PromptReadError

SpecCooldown == InitCooldown /\ [][NextCooldown]_vars

\* the state SpecCooldown starts from is a state of Spec
ScenarioReached == InitCooldown

(***************************************************************************)
(* Properties                                                              *)
(***************************************************************************)
\* how often the event occurs in the trace
Occurs(ev) == Cardinality({ i \in DOMAIN trace : trace[i] = ev })

\* the place of the first occurrence of the event, 0 when it does not occur
FirstAt(ev) ==
    IF Occurs(ev) = 0 THEN 0
    ELSE CHOOSE i \in DOMAIN trace :
             trace[i] = ev /\ \A j \in 1..(i - 1) : trace[j] # ev

PostEvent == <<"POST", "/claim">>
AskEvent == <<"print", "are_you_sure">>
ReadAmountEvent == <<"read_line", "amount">>
ReadConfirmEvent == <<"read_line", "confirm">>

\* the answers that confirm, written out
AffirmativeAnswers == { <<>>, <<"y">>, <<"y", "e", "s">> }

\* C1: a POST /claim has been issued only if, before it, the balance body
\* converted to balance_grains > 0, the amount resolved to
\* claim_amount_grains with 0 < claim_amount_grains <= balance_grains and the
\* confirmation answer was affirmative; the amount sent is exactly that
\* claim_amount_grains.
C1_PostOnlyAfterChecks ==
    /\ post_amount.some <=> Occurs(PostEvent) > 0
    /\ post_amount.some =>
        /\ balance.some /\ ParseF64(balance.val).ok
        /\ balance_grains = Some(ToGrains(ParseF64(balance.val).val))
        /\ balance_grains.val > 0
        /\ claim_amount.some
        /\ claim_amount_grains = Some(ToGrains(claim_amount.val))
        /\ 0 < claim_amount_grains.val
        /\ claim_amount_grains.val <= balance_grains.val
        /\ confirm.some
        /\ to_lowercase(trim(confirm.val)) \in AffirmativeAnswers
        /\ post_amount.val = claim_amount_grains.val
        /\ 0 < FirstAt(AskEvent)
        /\ FirstAt(AskEvent) < FirstAt(ReadConfirmEvent)
        /\ FirstAt(ReadConfirmEvent) < FirstAt(PostEvent)

\* C1 witness: a claim request is in flight
C1_Witness ==
    /\ pc = "await_claim"
    /\ post_amount.some
    /\ post_amount.val < balance_grains.val

\* C2: at most one POST /claim is issued; after a transport failure of the
\* claim request the program sleeps once, 5 seconds, and finishes with that
\* one request.
C2_AtMostOnePost ==
    /\ Occurs(PostEvent) <= 1
    /\ Occurs(<<"sleep">>) <= 1
    /\ slept \in {0, SLEEP_SECS}
    /\ (outcome = "transport_failure_report" /\ pc \in {"prompt", "done"}) =>
        /\ Occurs(PostEvent) = 1
        /\ Occurs(<<"sleep">>) = 1
        /\ slept = 5

\* C2 witness: the attempt returned after a failed claim request
C2_Witness ==
    /\ pc = "done"
    /\ outcome = "transport_failure_report"
    /\ slept = 5

\* C3: with balance_grains > 0, a request of exactly balance_grains passes
\* validation and is put to the confirmation step; a request of
\* balance_grains + 1 or more ends with insufficient-balance, no
\* confirmation asked and no claim request issued.
C3_BoundaryAtBalance ==
    (balance_grains.some /\ balance_grains.val > 0 /\ claim_amount_grains.some) =>
        /\ claim_amount_grains.val = balance_grains.val =>
            /\ Occurs(AskEvent) = 1
            /\ outcome # "insufficient_balance"
            /\ pc = "read_confirm" \/ confirm.some \/ pc = "panicked"
        /\ claim_amount_grains.val >= balance_grains.val + 1 =>
            /\ outcome = "insufficient_balance"
            /\ Occurs(AskEvent) = 0
            /\ Occurs(ReadConfirmEvent) = 0
            /\ ~confirm.some
            /\ Occurs(PostEvent) = 0
            /\ ~post_amount.some

\* C3 witness: the request is one Grain above the balance and was refused
C3_Witness ==
    /\ balance_grains.some /\ claim_amount_grains.some
    /\ claim_amount_grains.val = balance_grains.val + 1
    /\ outcome = "insufficient_balance"
    /\ pc = "done"

\* the other side of the C3 boundary: the request equals the balance and the
\* confirmation is awaited
C3_EqualReached ==
    /\ balance_grains.some /\ claim_amount_grains.some
    /\ claim_amount_grains.val = balance_grains.val
    /\ pc = "read_confirm"

\* C4: the checks run in the order no-balance, zero-amount,
\* insufficient-balance: a balance of 0 Grains ends with no-balance before
\* any amount is resolved (no amount line read, no preset examined), and a
\* positive balance with an amount of 0 Grains ends with zero-amount.
C4_CheckOrder ==
    /\ (balance_grains.some /\ balance_grains.val = 0) =>
        /\ outcome = "no_balance"
        /\ ~input.some
        /\ ~claim_amount.some
        /\ ~claim_amount_grains.some
        /\ Occurs(ReadAmountEvent) = 0
        /\ Occurs(<<"print", "enter_amount">>) = 0
    /\ (claim_amount_grains.some /\ claim_amount_grains.val = 0) =>
        /\ balance_grains.some /\ balance_grains.val > 0
        /\ outcome = "zero_amount"
        /\ Occurs(Message("no_balance")) = 0
        /\ Occurs(Message("insufficient_balance")) = 0

\* C4 witness: a preset amount of 0 Grains met a positive balance
C4_Witness ==
    /\ args_amount.some
    /\ claim_amount_grains = Some(0)
    /\ balance_grains.val > 0
    /\ outcome = "zero_amount"

\* the other case of C4: a balance of 0 Grains although an amount was preset
C4_ZeroBalanceReached ==
    /\ args_amount.some
    /\ balance_grains = Some(0)
    /\ pc = "done"

\* C5: a balance request that fails at the transport level, or whose body
\* does not parse as a number, ends the attempt as a balance of zero does:
\* the no-balance message, no amount read, no confirmation asked, no claim
\* request.
C5_BalanceUnavailable ==
    (pc \notin {"start", "await_balance"}
        /\ (~balance.some \/ ~ParseF64(balance.val).ok)) =>
        /\ outcome = "no_balance"
        /\ ~balance_grains.some
        /\ SubSeq(trace, 1, 3) = << <<"GET", "/miner/rewards">>, Message("no_balance"),
                                    <<"print", "press_any_key">> >>
        /\ ~input.some /\ ~claim_amount.some /\ ~confirm.some /\ ~post_amount.some
        /\ Occurs(ReadAmountEvent) = 0
        /\ Occurs(AskEvent) = 0
        /\ Occurs(ReadConfirmEvent) = 0
        /\ Occurs(PostEvent) = 0

\* C5 witness: the body was there and did not parse
C5_Witness ==
    /\ balance.some
    /\ ~ParseF64(balance.val).ok
    /\ outcome = "no_balance"
    /\ pc = "done"

\* the other case of C5: the balance request failed at the transport level
C5_TransportReached ==
    /\ ~balance.some
    /\ outcome = "no_balance"
    /\ pc = "done"

\* the trace of a balance of zero, which C5 compares with
C5_ZeroBalanceTrace ==
    (balance_grains = Some(0)) =>
        SubSeq(trace, 1, 3) = << <<"GET", "/miner/rewards">>, Message("no_balance"),
                                 <<"print", "press_any_key">> >>

\* C6: the confirmation accepts exactly the answers "", "y" and "yes",
\* whatever their case and surrounding whitespace: these lead to the claim
\* request, every other answer to user-cancelled and no claim request.
C6_ConfirmationSet ==
    confirm.some =>
        /\ IF to_lowercase(trim(confirm.val)) \in AffirmativeAnswers
           THEN post_amount.some /\ Occurs(PostEvent) = 1 /\ outcome # "user_cancelled"
           ELSE outcome = "user_cancelled" /\ ~post_amount.some /\ Occurs(PostEvent) = 0
        /\ confirm.val \in { <<>>, <<"\n">>, <<"y", "\n">>, <<"Y", "\n">>,
                             <<"y", "e", "s", "\n">>, <<"Y", "E", "S", "\n">> }
            => post_amount.some
        /\ confirm.val \in { <<"n", "\n">>, <<"n", "o", "\n">>,
                             <<"m", "a", "y", "b", "e", "\n">> }
            => (outcome = "user_cancelled" /\ ~post_amount.some)

\* C6 witness: the answer "YES" sent the claim request
C6_Witness ==
    /\ confirm = Some(<<"Y", "E", "S", "\n">>)
    /\ post_amount.some
    /\ pc = "await_claim"

\* the other case of C6: the answer "maybe" cancelled
C6_CancelReached ==
    /\ confirm = Some(<<"m", "a", "y", "b", "e", "\n">>)
    /\ outcome = "user_cancelled"
    /\ pc = "done"

\* C7: every readable claim reply is classified into exactly one of three
\* outcomes, tested in this order: the literal "SUCCESS" gives success, else
\* a body that parses as an integer gives cooldown-report, else
\* unrecognized-report with the raw text.
C7_ReplyClassified ==
    response_text.some =>
        outcome = IF response_text.val = SUCCESS THEN "success"
                  ELSE IF ParseU64(response_text.val).ok THEN "cooldown_report"
                  ELSE "unrecognized_report"

\* C8: for a cooldown reply with elapsed seconds e in 0..1800 the reported
\* minutes m and seconds s satisfy 0 <= s < 60 and m*60 + s = 1800 - e;
\* "600" reports 20m 0s and "1800" reports 0m 0s.
C8_CooldownMath ==
    (response_text.some /\ ParseU64(response_text.val).ok
        /\ ParseU64(response_text.val).val <= 1800) =>
        LET e == ParseU64(response_text.val).val
        IN  /\ outcome = "cooldown_report"
            /\ mins.some /\ secs.some
            /\ 0 <= secs.val /\ secs.val < 60
            /\ mins.val * 60 + secs.val = 1800 - e
            /\ response_text.val = <<"6", "0", "0">> => (mins.val = 20 /\ secs.val = 0)
            /\ response_text.val = <<"1", "8", "0", "0">> => (mins.val = 0 /\ secs.val = 0)

\* C8 witness: the reply "600" was reported as 20m 0s
C8_Witness ==
    /\ response_text = Some(<<"6", "0", "0">>)
    /\ mins = Some(20)
    /\ secs = Some(0)
    /\ pc = "done"

\* the other replies C8 names: "1800", and an e that is no multiple of 60
C8_WindowEndReached ==
    /\ response_text = Some(<<"1", "8", "0", "0">>)
    /\ mins = Some(0) /\ secs = Some(0)

C8_OddReached ==
    /\ response_text = Some(<<"1", "7", "9", "9">>)
    /\ mins = Some(0) /\ secs = Some(1)

\* C9: a cooldown reply with elapsed seconds above 1800 yields the negative
\* remainder 1800 - elapsed, and the attempt ends with cooldown-report.
C9_NegativeRemainder ==
    (response_text.some /\ response_text.val # SUCCESS
        /\ ParseU64(response_text.val).ok
        /\ ParseU64(response_text.val).val > 1800) =>
        /\ time_left.some
        /\ time_left.val = 1800 - ParseU64(response_text.val).val
        /\ time_left.val < 0
        /\ outcome = "cooldown_report"

\* what the code does on such a reply without overflow checks: the
\* remainder wraps to a large unsigned value and is reported as a cooldown
C9_WrappedReached ==
    /\ response_text = Some(<<"1", "9", "0", "0">>)
    /\ time_left = Some(Pow(2, U64Bits) - 100)
    /\ outcome = "cooldown_report"

\* what the code does on such a reply with overflow checks: it panics
C9_PanicReached ==
    /\ response_text = Some(<<"1", "9", "0", "0">>)
    /\ pc = "panicked"

\* C10: no failure of the attempt is process-fatal: whatever the balance
\* reply, the amount and confirmation input and the claim reply (transport
\* failures, unreadable bodies, end-of-input, cooldown values of any size),
\* the attempt never aborts.  Failed reads of stdin, which the claim does
\* not list, are left aside.
C10_NoAbort ==
    pc = "panicked" =>
        /\ Len(trace) >= 2
        /\ trace[Len(trace) - 1] \in { ReadAmountEvent, ReadConfirmEvent, <<"read", "byte">> }

\* how many terminal messages the trace holds
TerminalMessages ==
    Cardinality({ i \in DOMAIN trace : \E oc \in Outcomes : trace[i] = Message(oc) })

\* C11: when every reply and every awaited line arrives, the invocation
\* reaches Done with exactly one of the nine terminal outcomes: until it has
\* returned it can always take a step, and it returns with one outcome.
C11_ReachesDone ==
    /\ pc = "done" \/ ENABLED NextLive
    /\ pc = "done" => (outcome \in Outcomes /\ TerminalMessages = 1)

\* C11 as a property of behaviours: the invocation eventually returns
C11_EventuallyDone == <>(pc = "done" /\ outcome \in Outcomes)

\* what does hold of every fair behaviour: the invocation returns or panics
C11_ReturnsOrPanics == <>(pc \in {"done", "panicked"})

\* the stage of the workflow a suspension point belongs to: Start 0,
\* BalanceChecked 1, AmountResolved 2, Validated 3, Confirmed 4, Submitted 5,
\* Done 6; AmountResolved and Confirmed are passed within one step, and a
\* panic (7) ends the process
StageOf(p) ==
    CASE p \in {"start", "await_balance"} -> 0
      [] p \in {"show_balance", "read_amount"} -> 1
      [] p = "read_confirm" -> 3
      [] p \in {"await_claim", "sleeping"} -> 5
      [] p \in {"prompt", "done"} -> 6
      [] p = "panicked" -> 7

\* the order of the suspension points in the code
PcRank(p) ==
    CASE p = "start" -> 0
      [] p = "await_balance" -> 1
      [] p = "show_balance" -> 2
      [] p = "read_amount" -> 3
      [] p = "read_confirm" -> 4
      [] p = "await_claim" -> 5
      [] p = "sleeping" -> 6
      [] p = "prompt" -> 7
      [] p = "done" -> 8
      [] p = "panicked" -> 9

\* C12: the workflow is single-pass: every step moves to a later suspension
\* point and never to an earlier stage, so no stage is entered twice, and
\* once the invocation has returned nothing changes.
C12_SinglePass ==
    [][/\ StageOf(pc') >= StageOf(pc)
       /\ PcRank(pc') > PcRank(pc)
       /\ pc # "done"]_vars

\* C12 witness: an invocation went through every stage and returned
C12_Witness ==
    /\ pc = "done"
    /\ outcome = "success"
    /\ trace[Len(trace) - 3] = PostEvent

\* C13: without a preset amount, an amount line that does not parse as a
\* number ends the attempt with invalid-input: the amount is not read
\* again, no confirmation is asked and no claim request is issued.
C13_InvalidInputEnds ==
    (input.some /\ ~ParseF64(trim(input.val)).ok) =>
        /\ ~args_amount.some
        /\ outcome = "invalid_input"
        /\ pc \in {"prompt", "done", "panicked"}
        /\ Occurs(ReadAmountEvent) = 1
        /\ Occurs(<<"print", "enter_amount">>) = 1
        /\ ~claim_amount.some /\ ~claim_amount_grains.some
        /\ Occurs(AskEvent) = 0
        /\ Occurs(ReadConfirmEvent) = 0 /\ ~confirm.some
        /\ Occurs(PostEvent) = 0 /\ ~post_amount.some

\* C13 witness: the line "abc" ended the attempt
C13_Witness ==
    /\ input = Some(<<"a", "b", "c", "\n">>)
    /\ outcome = "invalid_input"
    /\ pc = "done"

\* another case of C13: end-of-input instead of an amount line
C13_EndOfInputReached ==
    /\ input = Some(<<>>)
    /\ outcome = "invalid_input"
    /\ pc = "done"

PressEvent == <<"print", "press_any_key">>
ReadByteEvent == <<"read", "byte">>

\* C14: every terminal outcome prints its message once and then waits once
\* for the acknowledgement, as the last thing the invocation does: the
\* message precedes the wait, and after the message no request is sent and
\* no amount or confirmation is asked for or read.
C14_MessageThenAck ==
    /\ TerminalMessages <= 1
    /\ Occurs(PressEvent) <= 1
    /\ Occurs(ReadByteEvent) <= 1
    /\ (outcome = "none") <=> (TerminalMessages = 0)
    /\ outcome # "none" =>
        /\ outcome \in Outcomes
        /\ Occurs(Message(outcome)) = 1
        /\ pc \in {"sleeping", "prompt", "done", "panicked"}
        /\ \A i \in DOMAIN trace :
              i > FirstAt(Message(outcome)) =>
                  trace[i] \in { <<"print", "retrying">>, <<"sleep">>, PressEvent,
                                 ReadByteEvent, <<"panic">> }
    /\ pc \in {"prompt", "done"} =>
        /\ outcome \in Outcomes
        /\ Occurs(PressEvent) = 1
        /\ FirstAt(Message(outcome)) < FirstAt(PressEvent)
    /\ pc = "prompt" => trace[Len(trace)] = PressEvent
    /\ pc = "done" =>
        /\ trace[Len(trace)] = ReadByteEvent
        /\ trace[Len(trace) - 1] = PressEvent

\* C14 witness: the transport-failure path, the one with a delay between
\* message and acknowledgement, has returned
C14_Witness ==
    /\ pc = "done"
    /\ outcome = "transport_failure_report"
    /\ Occurs(PressEvent) = 1
    /\ Occurs(ReadByteEvent) = 1

\* all nine outcomes are reported by returned invocations
C14_AllOutcomesReached(oc) == pc = "done" /\ outcome = oc

\* a text of the form digits, digits "." digits, "." digits or digits "."
PlainDecimal(t) ==
    LET n1   == DigitPrefixLen(t)
        rest == Drop(t, n1)
    IN  \/ n1 > 0 /\ Len(rest) = 0
        \/ /\ Len(rest) > 0 /\ rest[1] = "."
           /\ DigitPrefixLen(Tail(rest)) = Len(rest) - 1
           /\ n1 + Len(rest) - 1 > 0

\* floor(d * 10^TOKEN_DECIMALS) for the decimal d a plain text denotes, in
\* exact integer arithmetic
FloorGrains(t) ==
    LET n1 == DigitPrefixLen(t)
        n2 == IF Len(t) > n1 THEN Len(t) - n1 - 1 ELSE 0
    IN  DigitsVal(SubSeq(t, 1, n1)) * Pow(10, TOKEN_DECIMALS)
        + (DigitsVal(SubSeq(t, n1 + 2, Len(t))) * Pow(10, TOKEN_DECIMALS)) \div Pow(10, n2)

\* floor(x * 10^TOKEN_DECIMALS) for a finite f64 x >= 0, in exact integer
\* arithmetic
FloorGrainsOfF64(x) ==
    IF x.e >= 0 THEN x.m * Pow(10, TOKEN_DECIMALS) * Pow(2, x.e)
    ELSE (x.m * Pow(10, TOKEN_DECIMALS)) \div Pow(2, -x.e)

\* C15: the conversion truncates and never rounds up: the Grains of the
\* balance and of the requested amount equal floor(d * 10^TOKEN_DECIMALS)
\* for the non-negative decimal d that was received or typed.
C15_ConversionIsFloor ==
    /\ (balance.some /\ balance_grains.some /\ PlainDecimal(balance.val)) =>
           balance_grains.val = FloorGrains(balance.val)
    /\ (input.some /\ claim_amount_grains.some /\ PlainDecimal(trim(input.val))) =>
           claim_amount_grains.val = FloorGrains(trim(input.val))

\* what the code does to the balance "0.07": one Grain less than the floor
C15_BelowFloorReached ==
    /\ balance = Some(<<"0", ".", "0", "7">>)
    /\ balance_grains.some
    /\ balance_grains.val = FloorGrains(balance.val) - 1

\* and the product itself is rounded, upwards too: for the amount "0.05" the
\* Grains exceed the floor of the f64 value times 10^TOKEN_DECIMALS
C15_RoundedUpReached ==
    /\ input = Some(<<"0", ".", "0", "5", "\n">>)
    /\ claim_amount.some /\ claim_amount_grains.some
    /\ claim_amount_grains.val > FloorGrainsOfF64(claim_amount.val)

\* the number of lines read from stdin before the claim request
LinesReadBeforePost ==
    Cardinality({ i \in 1..(FirstAt(PostEvent) - 1) :
                    trace[i] \in {ReadAmountEvent, ReadConfirmEvent} })

\* C16: with a preset amount the amount line is never asked for or read,
\* yet the preset goes through the zero-amount check, the balance bound
\* check and the confirmation before a claim request; the confirmation
\* line is the only line read before the request.
C16_PresetStillChecked ==
    args_amount.some =>
        /\ ~input.some
        /\ Occurs(ReadAmountEvent) = 0
        /\ Occurs(<<"print", "enter_amount">>) = 0
        /\ claim_amount.some => claim_amount.val = args_amount.val
        /\ claim_amount_grains.some =>
            /\ claim_amount_grains.val = ToGrains(args_amount.val)
            /\ claim_amount_grains.val = 0 =>
                   (outcome = "zero_amount" /\ Occurs(AskEvent) = 0)
            /\ claim_amount_grains.val > balance_grains.val =>
                   (outcome = "insufficient_balance" /\ Occurs(AskEvent) = 0)
        /\ post_amount.some =>
            /\ post_amount.val = ToGrains(args_amount.val)
            /\ 0 < post_amount.val /\ post_amount.val <= balance_grains.val
            /\ confirm.some
            /\ to_lowercase(trim(confirm.val)) \in AffirmativeAnswers
            /\ LinesReadBeforePost = 1
            /\ trace[FirstAt(PostEvent) - 2] = ReadConfirmEvent

\* C16 witness: a preset amount was confirmed and sent
C16_Witness ==
    /\ args_amount.some
    /\ post_amount.some
    /\ pc = "await_claim"

\* other cases of C16: a preset above the balance, and a preset declined
C16_PresetRefusedReached ==
    /\ args_amount.some
    /\ outcome = "insufficient_balance"

C16_PresetCancelledReached ==
    /\ args_amount.some
    /\ outcome = "user_cancelled"

SleepEvent == <<"sleep">>

\* C17: the 5-second delay happens on the transport-failure outcome of the
\* claim request and on no other, after the failure message and before the
\* wait for the acknowledgement.
C17_DelayOnlyOnTransportFailure ==
    /\ outcome # "transport_failure_report" =>
           (slept = 0 /\ Occurs(SleepEvent) = 0 /\ pc # "sleeping")
    /\ (slept > 0 \/ Occurs(SleepEvent) > 0) =>
        /\ outcome = "transport_failure_report"
        /\ slept = 5
        /\ Occurs(SleepEvent) = 1
        /\ Occurs(PostEvent) = 1
        /\ FirstAt(PostEvent) < FirstAt(Message("transport_failure_report"))
        /\ FirstAt(Message("transport_failure_report")) < FirstAt(SleepEvent)
        /\ FirstAt(SleepEvent) < FirstAt(PressEvent)
        /\ Occurs(ReadByteEvent) = 1 => FirstAt(SleepEvent) < FirstAt(ReadByteEvent)
    /\ (outcome = "transport_failure_report" /\ pc # "sleeping") => slept = 5
    /\ (outcome = "transport_failure_report" /\ pc = "sleeping") =>
           (slept = 0 /\ Occurs(PressEvent) = 0)

\* C17 witness: the delay is over and the acknowledgement is awaited
C17_Witness ==
    /\ pc = "prompt"
    /\ outcome = "transport_failure_report"
    /\ slept = 5
    /\ trace[Len(trace) - 1] = SleepEvent

\* C18: end-of-input at the confirmation read is an empty answer and
\* confirms: once validation has passed and the confirmation read returned
\* no characters, the claim request is issued with the validated amount,
\* exactly as after an empty line.
C18_EndOfInputConfirms ==
    (confirm.some /\ confirm.val \in { <<>>, <<"\n">> }) =>
        /\ to_lowercase(trim(confirm.val)) = <<>>
        /\ claim_amount_grains.some
        /\ claim_amount_grains.val > 0
        /\ claim_amount_grains.val <= balance_grains.val
        /\ post_amount = Some(claim_amount_grains.val)
        /\ Occurs(PostEvent) = 1
        /\ FirstAt(ReadConfirmEvent) < FirstAt(PostEvent)
        /\ outcome # "user_cancelled"

\* C18 witness: input ended at the confirmation read and the request is out
C18_Witness ==
    /\ confirm = Some(<<>>)
    /\ pc = "await_claim"
    /\ post_amount.some
    /\ trace[Len(trace)] = PostEvent

\* C18: the same after an empty line
C18_EmptyLineReached ==
    /\ confirm = Some(<<"\n">>)
    /\ pc = "await_claim"

IsNegative(x) == x.neg /\ x.k # "nan"

\* C19: a negative value converts to 0 Grains: a negative balance reply ends
\* with no-balance, a negative requested amount (the balance being positive)
\* ends with zero-amount, and in neither case is a claim request issued.
C19_NegativeIsZero ==
    /\ (balance.some /\ ParseF64(balance.val).ok
                     /\ IsNegative(ParseF64(balance.val).val)) =>
        /\ balance_grains = Some(0)
        /\ outcome = "no_balance"
        /\ ~claim_amount.some
        /\ ~post_amount.some
        /\ Occurs(PostEvent) = 0
    /\ (claim_amount.some /\ IsNegative(claim_amount.val)) =>
        /\ balance_grains.val > 0
        /\ claim_amount_grains = Some(0)
        /\ outcome = "zero_amount"
        /\ ~post_amount.some
        /\ Occurs(PostEvent) = 0
        /\ Occurs(AskEvent) = 0

\* C19 witness: a negative amount was refused with a positive balance
C19_Witness ==
    /\ claim_amount.some
    /\ IsNegative(claim_amount.val)
    /\ balance_grains.val > 0
    /\ outcome = "zero_amount"
    /\ pc = "done"

\* C19: a negative balance reply ended with no-balance
C19_NegativeBalanceReached ==
    /\ balance.some
    /\ ParseF64(balance.val).ok
    /\ IsNegative(ParseF64(balance.val).val)
    /\ outcome = "no_balance"
    /\ pc = "done"

BalanceCallEvent == <<"call", "balance">>

\* C20: once set, the balance snapshot is never changed by a later step (the
\* balance display call included), and claim_amount_grains is unchanged from
\* its computation on; the amount sent is that claim_amount_grains.
C20_SnapshotFrame ==
    [][/\ balance.some => balance' = balance
       /\ balance_grains.some => balance_grains' = balance_grains
       /\ claim_amount_grains.some => claim_amount_grains' = claim_amount_grains
       /\ post_amount.some => post_amount' = post_amount
       /\ post_amount'.some => post_amount' = claim_amount_grains'
       /\ claim_amount_grains'.some =>
              balance_grains' = Some(ToGrains(ParseF64(balance'.val).val))]_vars

\* C20 witness: the display call and the bound check are past and the amount
\* computed before the confirmation is the one sent
C20_Witness ==
    /\ Occurs(BalanceCallEvent) = 1
    /\ post_amount.some
    /\ post_amount = claim_amount_grains
    /\ claim_amount_grains.val < balance_grains.val
    /\ balance_grains = Some(ToGrains(ParseF64(balance.val).val))
    /\ response_text.some

=============================================================================
